---------------------------- MODULE Spec2Model ----------------------------
(***************************************************************************)
(* The playback coordination protocol of ai-audio-player: the controller   *)
(* (AudioManager, src/background/background.ts) owning the canonical       *)
(* playlist and transport state, the persistent store it writes, and the   *)
(* commands it forwards to the playback engine.                            *)
(*                                                                         *)
(* Spec handles one message at a time: every action is one whole run of    *)
(* AudioManager.handleMessage (dispatch, the operation, the response, the  *)
(* save and the broadcast), or one controller start-up.                    *)
(***************************************************************************)
EXTENDS Integers, Sequences, FiniteSets, TLC

VARIABLES
  audioState,   \* AudioManager.audioState, the canonical state
  store,        \* chrome.storage.local: the record under key 'audioState'
  msg,          \* the message the last action handled
  pre,          \* audioState when that message arrived
  log,          \* what the handler did, in order: forwards, index writes, storage calls
  responded,    \* sendResponse was called for that message
  threw,        \* an exception escaped handleMessage (an unhandled rejection)
  broadcast,    \* the states sent as STATE_BROADCAST while handling it, in order
  engine,       \* OffscreenAudioPlayer: the device's source and the playAudio calls
  panel,        \* AudioPlayerApp: its local copy of the state and its last click
  pending,      \* the handlers of the controller suspended on an await
  chrome        \* the host: offscreen documents, storage reads and messages in flight

vars == <<audioState, store, msg, pre, log, responded, threw, broadcast,
          engine, panel, pending, chrome>>

\* What a step of the controller that runs a whole handler leaves alone.
outside == <<engine, panel, pending, chrome>>

-----------------------------------------------------------------------------
(* Bounds of the model *)

MaxTracks == 3      \* the playlist holds at most this many tracks
MaxTime == 1        \* playback positions are 0..MaxTime

(* Program constants *)

NoSelection == -1   \* currentIndex of "no selection"
FullVolume == 100   \* volume 1.0; volumes are in hundredths

-----------------------------------------------------------------------------
(* Values *)

TrackIds == {"t1", "t2", "t3"}
\* The tracks an ADD_TRACK message may carry: an id and a url, any strings.
\* Two have a playable url, one has the empty url play() guards against. The
\* same track may be added twice (the controller does not compare ids).
Tracks ==
  {[id |-> "t1", url |-> "u1"], [id |-> "t2", url |-> "u2"], [id |-> "t3", url |-> ""]}
NoTrack == [id |-> "", url |-> ""]
Times == 0..MaxTime
\* SET_VOLUME values: below 0, inside [0,1], above 1.
Volumes == {-50, 50, 150}

\* AudioManager.audioState as constructed. Its field currentTrack, which play
\* writes and nothing reads, is not modelled.
DefaultState ==
  [isPlaying |-> FALSE, currentTime |-> 0, duration |-> 0,
   playlist |-> <<>>, currentIndex |-> NoSelection, volume |-> FullVolume]

Fields == {"isPlaying", "currentTime", "duration", "playlist", "currentIndex", "volume"}

\* A message to the controller: its action and the payload the action reads.
Message(a, i, t, v) == [action |-> a, trackId |-> i, track |-> t, value |-> v]

\* One step a handler took: a command forwarded to the engine (ev its action,
\* url and arg its payload, ok whether the forward succeeded), a write of
\* currentIndex (arg the value), or a storage call.
Event(e, u, n, k) == [url |-> u, ev |-> e, arg |-> n, ok |-> k]

\* A handler's running context: the state it mutates, the steps it has taken,
\* and whether an exception is propagating.
Ctx(s) == [st |-> s, events |-> <<>>, raised |-> FALSE]

NoRecord == [present |-> FALSE]

MaxCalls == 2       \* playAudio calls in progress at once
Calls == 1..MaxCalls

\* One playAudio call: phase is where the call stands ("idle" no call,
\* "waiting" on the promise of the load, "ready" the promise resolved,
\* "failed" it rejected, "started" audio.play() was called, "reported" an
\* AUDIO_ERROR was sent); resolved, listening and timer are the closure's flag,
\* its four listeners and its timeout; signal is what settled the promise;
\* settled, attempts and errors count the settlements of the promise, the
\* calls of audio.play() and the AUDIO_ERROR messages of this call.
IdleCall ==
  [phase |-> "idle", resolved |-> FALSE, listening |-> FALSE, timer |-> FALSE,
   signal |-> "", settled |-> 0, attempts |-> 0, errors |-> 0]

\* The properties of the audio element a snapshot is read from, and the state
\* object of an AUDIO_STATE_UPDATE: the same five fields.
Snapshot(t, d, v, p, e) ==
  [currentTime |-> t, duration |-> d, volume |-> v, paused |-> p, ended |-> e]

\* The audio element of a fresh offscreen document: nothing loaded, paused.
FreshDevice == Snapshot(0, 0, FullVolume, TRUE, FALSE)

NoPosition == -1    \* no playback position on record

\* The engine before any command: no source bound, no call; device is the audio
\* element, command the last command handleMessage took, heard the last
\* device event the listeners of setupAudioEventListeners ran for, requested
\* the url of the last PLAY_AUDIO, and pausedAt the position the device had
\* when PAUSE_AUDIO was the last command before the PLAY_AUDIO of the same
\* source that is now in progress (NoPosition otherwise).
EngineIdle ==
  [src |-> "", calls |-> [k \in Calls |-> IdleCall], device |-> FreshDevice,
   command |-> "", heard |-> "", requested |-> "", pausedAt |-> NoPosition]

\* The panel's useState initial value with no click yet: local is its copy of
\* the state, clicked the id of the last track clicked, before the copy at
\* that click, sent the intents the click sent.
PanelOpened ==
  [local |-> DefaultState, clicked |-> "", before |-> DefaultState, sent |-> <<>>]

\* The host with nothing going on: documents counts the offscreen documents,
\* reads holds the results of the chrome.storage.local.get calls not yet
\* resolved, reports the messages the engine sent on the last device event,
\* deliveries the states on their way to the panel, intents the messages of
\* the panel on their way to the controller.
ChromeIdle ==
  [documents |-> 0, reads |-> <<>>, reports |-> <<>>, deliveries |-> <<>>,
   intents |-> <<>>]

-----------------------------------------------------------------------------
(* Array helpers *)

\* Array.prototype.findIndex on the playlist by id, as a 0-based index; -1 if none.
findIndex(playlist, trackId) ==
  IF \E i \in 1..Len(playlist) : playlist[i].id = trackId
  THEN (CHOOSE i \in 1..Len(playlist) :
          /\ playlist[i].id = trackId
          /\ \A j \in 1..(i - 1) : playlist[j].id # trackId) - 1
  ELSE -1

\* playlist.splice(index, 1), index 0-based.
splice(playlist, index) ==
  SubSeq(playlist, 1, index) \o SubSeq(playlist, index + 2, Len(playlist))

\* x || y on numbers: y when x is 0, which is falsy.
OrElse(x, y) == IF x = 0 THEN y ELSE x

Max(a, b) == IF a >= b THEN a ELSE b
Min(a, b) == IF a <= b THEN a ELSE b

\* this.audioState.currentIndex = i
setIndex(c, i) ==
  [c EXCEPT !.st.currentIndex = i,
            !.events = Append(@, Event("currentIndex", "", i, TRUE))]

-----------------------------------------------------------------------------
(* Forwarding to the engine *)

\* sendToOffscreen: ensure the offscreen document exists, then send. ok is the
\* environment's answer: FALSE when creating the document or the send rejects,
\* and the rejection propagates to the caller.
sendToOffscreen(c, action, url, num, ok) ==
  [c EXCEPT !.events = Append(@, Event(action, url, num, ok)),
            !.raised = ~ok]

\* play without its try/catch: a rejected forward escapes (mutant of play).
playRethrows(c, ok) ==
  IF c.st.currentIndex >= 0 /\ Len(c.st.playlist) > 0
  THEN IF c.st.currentIndex < Len(c.st.playlist)
            /\ c.st.playlist[c.st.currentIndex + 1].url # ""
       THEN LET track == c.st.playlist[c.st.currentIndex + 1]
                c1 == sendToOffscreen(c, "PLAY_AUDIO", track.url, 0, ok)
            IN IF ~c1.raised THEN [c1 EXCEPT !.st.isPlaying = TRUE] ELSE c1
       ELSE [c EXCEPT !.st.isPlaying = FALSE]
  ELSE c

play(c, ok) ==
  IF c.st.currentIndex >= 0 /\ Len(c.st.playlist) > 0
  THEN IF c.st.currentIndex < Len(c.st.playlist)
            /\ c.st.playlist[c.st.currentIndex + 1].url # ""
       THEN LET track == c.st.playlist[c.st.currentIndex + 1]
                c1 == sendToOffscreen(c, "PLAY_AUDIO", track.url, 0, ok)
            IN IF ~c1.raised
               THEN [c1 EXCEPT !.st.isPlaying = TRUE]
               ELSE [c1 EXCEPT !.st.isPlaying = FALSE, !.raised = FALSE]
       ELSE [c EXCEPT !.st.isPlaying = FALSE]
  ELSE c

pause(c, ok) ==
  LET c1 == sendToOffscreen(c, "PAUSE_AUDIO", "", 0, ok)
  IN IF c1.raised THEN c1 ELSE [c1 EXCEPT !.st.isPlaying = FALSE]

stop(c, ok) ==
  LET c1 == sendToOffscreen(c, "STOP_AUDIO", "", 0, ok)
  IN IF c1.raised THEN c1
     ELSE [c1 EXCEPT !.st.isPlaying = FALSE, !.st.currentTime = 0]

seek(c, time, ok) ==
  LET c1 == sendToOffscreen(c, "SEEK_AUDIO", "", time, ok)
  IN IF c1.raised THEN c1 ELSE [c1 EXCEPT !.st.currentTime = time]

setVolume(c, volume, ok) ==
  LET c1 == sendToOffscreen(c, "SET_VOLUME", "", volume, ok)
  IN IF c1.raised THEN c1 ELSE [c1 EXCEPT !.st.volume = volume]

-----------------------------------------------------------------------------
(* Playlist operations *)

\* addTrack selecting the new track on every call (mutant of addTrack).
addTrackSelectsFirst(c, track) ==
  setIndex([c EXCEPT !.st.playlist = Append(@, track)], 0)

addTrack(c, track) ==
  LET c1 == [c EXCEPT !.st.playlist = Append(@, track)]
  IN IF c1.st.currentIndex = -1 THEN setIndex(c1, 0) ELSE c1

\* removeTrack without the reset to -1 on an empty playlist (mutant of removeTrack).
removeTrackKeepsIndex(c, trackId, ok) ==
  LET index == findIndex(c.st.playlist, trackId)
  IN IF index # -1
     THEN LET c1 == [c EXCEPT !.st.playlist = splice(@, index)]
              c2 == IF c1.st.currentIndex >= Len(c1.st.playlist)
                    THEN setIndex(c1, Max(0, Len(c1.st.playlist) - 1))
                    ELSE c1
          IN IF Len(c2.st.playlist) = 0 THEN stop(c2, ok) ELSE c2
     ELSE c

removeTrack(c, trackId, ok) ==
  LET index == findIndex(c.st.playlist, trackId)
  IN IF index # -1
     THEN LET c1 == [c EXCEPT !.st.playlist = splice(@, index)]
              c2 == IF c1.st.currentIndex >= Len(c1.st.playlist)
                    THEN setIndex(c1, Max(0, Len(c1.st.playlist) - 1))
                    ELSE c1
          IN IF Len(c2.st.playlist) = 0
             THEN stop(setIndex(c2, -1), ok)
             ELSE c2
     ELSE c

\* stop, select and play whether or not playback was on (mutant of
\* stopSelectPlay).
stopSelectAlwaysPlay(c, index, ok1, ok2) ==
  LET c1 == stop(c, ok1)
  IN IF c1.raised THEN c1 ELSE play(setIndex(c1, index), ok2)

\* stop, play again, and only then select: the old track is replayed (mutant
\* of stopSelectPlay).
stopPlaySelect(c, index, ok1, ok2) ==
  LET wasPlaying == c.st.isPlaying
      c1 == stop(c, ok1)
  IN IF c1.raised THEN c1
     ELSE setIndex(IF wasPlaying THEN play(c1, ok2) ELSE c1, index)

\* The tail setCurrentTrack, nextTrack and previousTrack share: stop, select,
\* and play again if playback was on.
stopSelectPlay(c, index, ok1, ok2) ==
  LET wasPlaying == c.st.isPlaying
      c1 == stop(c, ok1)
  IN IF c1.raised THEN c1
     ELSE LET c2 == setIndex(c1, index)
          IN IF wasPlaying THEN play(c2, ok2) ELSE c2

\* setCurrentTrack without the test of the index: an unknown id stops playback
\* and selects -1 (mutant of setCurrentTrack).
setCurrentTrackUnguarded(c, trackId, ok1, ok2) ==
  stopSelectPlay(c, findIndex(c.st.playlist, trackId), ok1, ok2)

setCurrentTrack(c, trackId, ok1, ok2) ==
  LET index == findIndex(c.st.playlist, trackId)
  IN IF index # -1 THEN stopSelectPlay(c, index, ok1, ok2) ELSE c

nextTrack(c, ok1, ok2) ==
  IF Len(c.st.playlist) = 0 THEN c
  ELSE stopSelectPlay(c, (c.st.currentIndex + 1) % Len(c.st.playlist), ok1, ok2)

previousTrack(c, ok1, ok2) ==
  IF Len(c.st.playlist) = 0 THEN c
  ELSE LET prevIndex == c.st.currentIndex - 1
       IN stopSelectPlay(c, IF prevIndex < 0 THEN Len(c.st.playlist) - 1 ELSE prevIndex,
                         ok1, ok2)

\* handleTrackEnded advancing whenever a playlist exists, so that the last
\* track wraps to the first (mutant of handleTrackEnded).
handleTrackEndedWraps(c, ok1, ok2) ==
  LET c1 == [c EXCEPT !.st.isPlaying = FALSE, !.st.currentTime = 0]
  IN IF c1.st.currentIndex <= Len(c1.st.playlist) - 1
     THEN nextTrack(c1, ok1, ok2)
     ELSE c1

handleTrackEnded(c, ok1, ok2) ==
  LET c1 == [c EXCEPT !.st.isPlaying = FALSE, !.st.currentTime = 0]
  IN IF c1.st.currentIndex < Len(c1.st.playlist) - 1
     THEN nextTrack(c1, ok1, ok2)
     ELSE c1

-----------------------------------------------------------------------------
(* Persistence *)

\* A JSON value of the stored record: an array keeps its items, anything else
\* in the playlist's place does not pass Array.isArray.
JsonArray(a) == [isArray |-> TRUE, items |-> a]

\* chrome.storage.local.set serialises the state field by field.
Serialize(st) ==
  [f \in Fields |-> IF f = "playlist" THEN JsonArray(st.playlist) ELSE st[f]]

StoredRecord(st) == [present |-> TRUE, data |-> Serialize(st)]

\* saveState: the write is attempted with the state as it is at the call; a
\* rejected write is caught and logged.
saveState(c, old, setOk) ==
  [ctx |-> [c EXCEPT !.events = Append(@, Event("storage.set", "", 0, setOk))],
   rec |-> IF setOk THEN StoredRecord(c.st) ELSE old]

\* loadState with the spread reversed, { ...saved, ...this.audioState }: the
\* defaults win over the stored record (mutant of loadState).
loadStateDefaultsWin(c, rec, getOk) ==
  LET c1 == [c EXCEPT !.events = Append(@, Event("storage.get", "", 0, getOk))]
  IN IF ~getOk
     THEN [c1 EXCEPT !.st.playlist = <<>>, !.st.currentIndex = -1]
     ELSE c1

\* loadState: overlay the stored record, if any, on the current state; a stored
\* playlist that is not an array is replaced by []; a rejected read resets the
\* playlist and the selection.
loadState(c, rec, getOk) ==
  LET c1 == [c EXCEPT !.events = Append(@, Event("storage.get", "", 0, getOk))]
  IN IF ~getOk
     THEN [c1 EXCEPT !.st.playlist = <<>>, !.st.currentIndex = -1]
     ELSE IF ~rec.present THEN c1
     ELSE LET saved == rec.data
              fixed == IF "playlist" \in DOMAIN saved /\ saved["playlist"].isArray
                       THEN saved
                       ELSE [f \in DOMAIN saved \cup {"playlist"} |->
                               IF f = "playlist" THEN JsonArray(<<>>) ELSE saved[f]]
              merged == [f \in Fields |->
                           IF f \in DOMAIN fixed
                           THEN (IF f = "playlist" THEN fixed[f].items ELSE fixed[f])
                           ELSE c1.st[f]]
          IN [c1 EXCEPT !.st =
                [isPlaying |-> merged["isPlaying"],
                 currentTime |-> merged["currentTime"],
                 duration |-> merged["duration"],
                 playlist |-> merged["playlist"],
                 currentIndex |-> merged["currentIndex"],
                 volume |-> merged["volume"]]]

-----------------------------------------------------------------------------
(* The message handler *)

\* The switch with an AUDIO_ERROR case that plays the selected track again
\* (mutant of dispatch).
dispatchRetries(c, m, ok1, ok2) ==
  CASE m.action = "PLAY" -> play(c, ok1)
    [] m.action = "PAUSE" -> pause(c, ok1)
    [] m.action = "STOP" -> stop(c, ok1)
    [] m.action = "SEEK" -> seek(c, m.value, ok1)
    [] m.action = "SET_VOLUME" -> setVolume(c, m.value, ok1)
    [] m.action = "ADD_TRACK" -> addTrack(c, m.track)
    [] m.action = "REMOVE_TRACK" -> removeTrack(c, m.trackId, ok1)
    [] m.action = "SET_CURRENT_TRACK" -> setCurrentTrack(c, m.trackId, ok1, ok2)
    [] m.action = "NEXT_TRACK" -> nextTrack(c, ok1, ok2)
    [] m.action = "PREVIOUS_TRACK" -> previousTrack(c, ok1, ok2)
    [] m.action = "TRACK_ENDED" -> handleTrackEnded(c, ok1, ok2)
    [] m.action = "AUDIO_ERROR" -> play(c, ok1)
    [] OTHER -> c

\* The switch of handleMessage. ok1 and ok2 answer the first and the second
\* forward to the engine the operation makes.
dispatch(c, m, ok1, ok2) ==
  CASE m.action = "PLAY" -> play(c, ok1)
    [] m.action = "PAUSE" -> pause(c, ok1)
    [] m.action = "STOP" -> stop(c, ok1)
    [] m.action = "SEEK" -> seek(c, m.value, ok1)
    [] m.action = "SET_VOLUME" -> setVolume(c, m.value, ok1)
    [] m.action = "ADD_TRACK" -> addTrack(c, m.track)
    [] m.action = "REMOVE_TRACK" -> removeTrack(c, m.trackId, ok1)
    [] m.action = "SET_CURRENT_TRACK" -> setCurrentTrack(c, m.trackId, ok1, ok2)
    [] m.action = "NEXT_TRACK" -> nextTrack(c, ok1, ok2)
    [] m.action = "PREVIOUS_TRACK" -> previousTrack(c, ok1, ok2)
    [] m.action = "TRACK_ENDED" -> handleTrackEnded(c, ok1, ok2)
    [] m.action = "AUDIO_ERROR" -> [c EXCEPT !.st.isPlaying = FALSE]
    [] OTHER -> c

\* The STATE_BROADCASTs of one run of handleMessage: AUDIO_ERROR broadcasts in
\* its case and again at the end.
broadcastStateUpdate(m, st) ==
  IF m.action = "AUDIO_ERROR" THEN <<st, st>> ELSE <<st>>

\* One run of handleMessage for a message that reaches the end of the handler
\* unless the operation throws: the operation, then sendResponse, saveState
\* and broadcastStateUpdate.
runHandler(m, ok1, ok2, setOk) ==
  LET c == dispatch(Ctx(audioState), m, ok1, ok2)
      s == saveState(c, store, TRUE)
  IN /\ msg' = m
     /\ pre' = audioState
     /\ audioState' = c.st
     /\ threw' = c.raised
     /\ responded' = ~c.raised
     /\ log' = IF c.raised THEN c.events ELSE s.ctx.events
     /\ store' = IF c.raised THEN store ELSE s.rec
     /\ broadcast' = IF c.raised THEN <<>> ELSE broadcastStateUpdate(m, c.st)

\* The same with nothing else going on.
handleMessage(m, ok1, ok2, setOk) ==
  /\ runHandler(m, ok1, ok2, setOk)
  /\ UNCHANGED outside

\* GET_STATE answers with the state and returns.
getState ==
  /\ msg' = Message("GET_STATE", "", NoTrack, 0)
  /\ pre' = audioState
  /\ responded' = TRUE
  /\ threw' = FALSE
  /\ log' = <<>>
  /\ broadcast' = <<>>
  /\ UNCHANGED <<audioState, store>>
  /\ UNCHANGED outside

\* loadState run on the state st with the answer of chrome.storage.local.get.
runLoad(st, rec, getOk) ==
  LET c == loadState(Ctx(st), rec, getOk)
  IN /\ msg' = Message("STARTUP", "", NoTrack, 0)
     /\ pre' = audioState
     /\ audioState' = c.st
     /\ log' = c.events
     /\ responded' = FALSE
     /\ threw' = FALSE
     /\ broadcast' = <<>>
     /\ UNCHANGED store

\* new AudioManager(): the default state, then loadState, with no message in
\* between.
startup(getOk) ==
  /\ runLoad(DefaultState, store, getOk)
  /\ UNCHANGED outside

-----------------------------------------------------------------------------
(* Actions: one per message the controller receives, and its start-up.     *)
(* The write to the store is taken to succeed: storage is an available     *)
(* collaborator, and a rejected write only leaves the old record in place. *)

Play == \E ok \in BOOLEAN :
  handleMessage(Message("PLAY", "", NoTrack, 0), ok, TRUE, TRUE)

Pause == \E ok \in BOOLEAN :
  handleMessage(Message("PAUSE", "", NoTrack, 0), ok, TRUE, TRUE)

Stop == \E ok \in BOOLEAN :
  handleMessage(Message("STOP", "", NoTrack, 0), ok, TRUE, TRUE)

Seek == \E time \in Times, ok \in BOOLEAN :
  handleMessage(Message("SEEK", "", NoTrack, time), ok, TRUE, TRUE)

SetVolume == \E volume \in Volumes, ok \in BOOLEAN :
  handleMessage(Message("SET_VOLUME", "", NoTrack, volume), ok, TRUE, TRUE)

AddTrack == \E t \in Tracks :
  /\ Len(audioState.playlist) < MaxTracks
  /\ handleMessage(Message("ADD_TRACK", "", t, 0), TRUE, TRUE, TRUE)

RemoveTrack == \E id \in TrackIds, ok \in BOOLEAN :
  handleMessage(Message("REMOVE_TRACK", id, NoTrack, 0), ok, TRUE, TRUE)

SetCurrentTrack == \E id \in TrackIds, ok1 \in BOOLEAN, ok2 \in BOOLEAN :
  handleMessage(Message("SET_CURRENT_TRACK", id, NoTrack, 0), ok1, ok2, TRUE)

NextTrack == \E ok1 \in BOOLEAN, ok2 \in BOOLEAN :
  handleMessage(Message("NEXT_TRACK", "", NoTrack, 0), ok1, ok2, TRUE)

PreviousTrack == \E ok1 \in BOOLEAN, ok2 \in BOOLEAN :
  handleMessage(Message("PREVIOUS_TRACK", "", NoTrack, 0), ok1, ok2, TRUE)

TrackEnded == \E ok1 \in BOOLEAN :
  handleMessage(Message("TRACK_ENDED", "", NoTrack, 0), ok1, TRUE, TRUE)

AudioError ==
  handleMessage(Message("AUDIO_ERROR", "", NoTrack, 0), TRUE, TRUE, TRUE)

GetState == getState

Startup == \E getOk \in BOOLEAN : startup(getOk)

Init ==
  /\ audioState = DefaultState
  /\ store = NoRecord
  /\ msg = Message("NONE", "", NoTrack, 0)
  /\ pre = DefaultState
  /\ log = <<>>
  /\ responded = FALSE
  /\ threw = FALSE
  /\ broadcast = <<>>
  /\ engine = EngineIdle
  /\ panel = PanelOpened
  /\ pending = <<>>
  /\ chrome = ChromeIdle

Next ==
  \/ Play
  \/ Pause
  \/ Stop
  \/ Seek
  \/ SetVolume
  \/ AddTrack
  \/ RemoveTrack
  \/ SetCurrentTrack
  \/ NextTrack
  \/ PreviousTrack
  \/ TrackEnded
  \/ AudioError
  \/ GetState
  \/ Startup

Spec == Init /\ [][Next]_vars

-----------------------------------------------------------------------------
(* Vocabulary of the properties *)

EngineCommands == {"PLAY_AUDIO", "PAUSE_AUDIO", "STOP_AUDIO", "SEEK_AUDIO", "SET_VOLUME"}

IsCommand(e) == e.ev \in EngineCommands

\* The commands the last handler forwarded to the engine, in order.
Sent == SelectSeq(log, IsCommand)

AllForwardsOk == \A i \in 1..Len(Sent) : Sent[i].ok

\* saveState wrote the store while the last message was handled.
Saved == \E i \in 1..Len(log) : log[i].ev = "storage.set" /\ log[i].ok

Handled(a) == msg.action = a

DistinctIds(playlist) ==
  \A i, j \in 1..Len(playlist) : playlist[i].id = playlist[j].id => i = j

\* clamp(v, 0, 1) in hundredths.
Clamp(v) == Max(0, Min(FullVolume, v))

TransportFields == {"isPlaying", "currentTime", "duration", "currentIndex", "volume"}

\* The stored record holds exactly the canonical state.
StoreMatchesState ==
  /\ store.present
  /\ store.data["playlist"].isArray
  /\ store.data["playlist"].items = audioState.playlist
  /\ \A f \in TransportFields : store.data[f] = audioState[f]

-----------------------------------------------------------------------------
(* C1: after every ADD_TRACK and REMOVE_TRACK (and every other message or     *)
(* start-up) currentIndex is -1 exactly when the playlist is empty, and       *)
(* otherwise 0 <= currentIndex < len(playlist).                               *)
C1_IndexInvariant ==
  /\ (audioState.currentIndex = -1) <=> (Len(audioState.playlist) = 0)
  /\ Len(audioState.playlist) > 0 =>
       /\ 0 <= audioState.currentIndex
       /\ audioState.currentIndex < Len(audioState.playlist)

\* A REMOVE_TRACK took the only track away and left no selection.
C1_Witness ==
  /\ Handled("REMOVE_TRACK")
  /\ Len(pre.playlist) = 1
  /\ pre.currentIndex = 0
  /\ Len(audioState.playlist) = 0
  /\ audioState.currentIndex = -1

(* C2 (as claimed): when a completed REMOVE_TRACK removes the track at        *)
(* currentIndex while isPlaying is true, a STOP_AUDIO was forwarded before    *)
(* any write of currentIndex and isPlaying is false afterwards.               *)
C2_StopBeforeRenumber ==
  (/\ Handled("REMOVE_TRACK")
   /\ responded
   /\ pre.isPlaying
   /\ pre.currentIndex >= 0
   /\ findIndex(pre.playlist, msg.trackId) = pre.currentIndex)
  => /\ ~audioState.isPlaying
     /\ \E i \in 1..Len(log) :
          /\ log[i].ev = "STOP_AUDIO"
          /\ \A j \in 1..Len(log) : log[j].ev = "currentIndex" => i < j

(* C3 (as claimed): when REMOVE_TRACK removes a track at an index strictly    *)
(* below currentIndex (in a playlist whose ids are distinct), currentIndex is *)
(* decremented by one and the selected track keeps its id.                    *)
C3_RemoveBeforeCurrent ==
  (/\ Handled("REMOVE_TRACK")
   /\ DistinctIds(pre.playlist)
   /\ findIndex(pre.playlist, msg.trackId) # -1
   /\ findIndex(pre.playlist, msg.trackId) < pre.currentIndex)
  => /\ audioState.currentIndex = pre.currentIndex - 1
     /\ audioState.playlist[audioState.currentIndex + 1].id
          = pre.playlist[pre.currentIndex + 1].id

(* C4 (as claimed): after a completed SET_VOLUME(v) the canonical volume and  *)
(* the persisted volume are clamp(v, 0, 1), and the value forwarded to the    *)
(* engine is that clamped value.                                              *)
C4_VolumeClamped ==
  (Handled("SET_VOLUME") /\ responded)
  => /\ audioState.volume = Clamp(msg.value)
     /\ store.present /\ store.data["volume"] = Clamp(msg.value)
     /\ Len(Sent) = 1 /\ Sent[1].ev = "SET_VOLUME" /\ Sent[1].arg = Clamp(msg.value)

(* C5 (as claimed): SET_CURRENT_TRACK(id) naming an existing track while      *)
(* isPlaying, with every forward succeeding, forwards exactly one STOP_AUDIO  *)
(* and then exactly one PLAY_AUDIO carrying that track's url.                 *)
C5_StopThenPlay ==
  (/\ Handled("SET_CURRENT_TRACK")
   /\ findIndex(pre.playlist, msg.trackId) # -1
   /\ pre.isPlaying
   /\ AllForwardsOk)
  => Sent = <<Event("STOP_AUDIO", "", 0, TRUE),
              Event("PLAY_AUDIO", pre.playlist[findIndex(pre.playlist, msg.trackId) + 1].url,
                    0, TRUE)>>

(* C5 (amended): the same for a track whose url is not empty; for a track     *)
(* with an empty url only the STOP_AUDIO is forwarded and isPlaying ends      *)
(* false.                                                                     *)
C5_StopThenPlayUrl ==
  (/\ Handled("SET_CURRENT_TRACK")
   /\ findIndex(pre.playlist, msg.trackId) # -1
   /\ pre.isPlaying
   /\ AllForwardsOk)
  => LET url == pre.playlist[findIndex(pre.playlist, msg.trackId) + 1].url
     IN IF url # ""
        THEN Sent = <<Event("STOP_AUDIO", "", 0, TRUE), Event("PLAY_AUDIO", url, 0, TRUE)>>
        ELSE Sent = <<Event("STOP_AUDIO", "", 0, TRUE)>> /\ ~audioState.isPlaying

\* Playback moved from one track to another track with another url.
C5_Witness ==
  /\ Handled("SET_CURRENT_TRACK")
  /\ pre.isPlaying
  /\ audioState.isPlaying
  /\ audioState.currentIndex # pre.currentIndex
  /\ Len(Sent) = 2
  /\ Sent[2].ev = "PLAY_AUDIO" /\ Sent[2].ok
  /\ Sent[2].url = audioState.playlist[audioState.currentIndex + 1].url
  /\ Sent[2].url # pre.playlist[pre.currentIndex + 1].url

(* C6 (as claimed): on a playlist of length n >= 1 with currentIndex = i,     *)
(* NEXT_TRACK leaves currentIndex = (i+1) mod n and PREVIOUS_TRACK leaves     *)
(* currentIndex = (i-1+n) mod n.                                              *)
C6_CyclicNeighbour ==
  LET n == Len(pre.playlist)
  IN /\ (Handled("NEXT_TRACK") /\ n >= 1)
          => audioState.currentIndex = (pre.currentIndex + 1) % n
     /\ (Handled("PREVIOUS_TRACK") /\ n >= 1)
          => audioState.currentIndex = (pre.currentIndex - 1 + n) % n

(* C7 (as claimed): TRACK_ENDED with currentIndex < len(playlist) - 1 leaves  *)
(* currentIndex one higher, isPlaying false and currentTime 0.                *)
C7_EndedAdvances ==
  (Handled("TRACK_ENDED") /\ pre.currentIndex < Len(pre.playlist) - 1)
  => /\ audioState.currentIndex = pre.currentIndex + 1
     /\ ~audioState.isPlaying
     /\ audioState.currentTime = 0

(* C8: TRACK_ENDED with currentIndex = len(playlist) - 1 leaves currentIndex  *)
(* as it was (no wraparound), isPlaying false and currentTime 0, and forwards *)
(* no command to the engine.                                                  *)
C8_EndedAtLastStays ==
  (Handled("TRACK_ENDED") /\ pre.currentIndex = Len(pre.playlist) - 1)
  => /\ audioState.currentIndex = pre.currentIndex
     /\ audioState.playlist = pre.playlist
     /\ ~audioState.isPlaying
     /\ audioState.currentTime = 0
     /\ Sent = <<>>

\* The last of several tracks ended while it was playing at a position > 0.
C8_Witness ==
  /\ Handled("TRACK_ENDED")
  /\ Len(pre.playlist) >= 2
  /\ pre.currentIndex = Len(pre.playlist) - 1
  /\ pre.isPlaying
  /\ pre.currentTime > 0
  /\ audioState.currentIndex = pre.currentIndex
  /\ responded

(* C9: what the controller persists is its canonical state, and a fresh       *)
(* controller that loads a persisted record with a well-formed playlist has   *)
(* the persisted playlist and the persisted isPlaying, currentIndex,          *)
(* currentTime, duration and volume.                                          *)
C9_RoundTrip ==
  /\ (responded /\ Saved) => StoreMatchesState
  /\ (/\ Handled("STARTUP")
      /\ log[1].ok
      /\ store.present
      /\ store.data["playlist"].isArray) => StoreMatchesState

\* A fresh controller loaded a record that differs from the defaults in the
\* playlist and in every transport field the controller can change.
C9_Witness ==
  /\ Handled("STARTUP")
  /\ log[1].ok
  /\ store.present
  /\ Len(audioState.playlist) >= 2
  /\ audioState.currentIndex >= 1
  /\ audioState.isPlaying
  /\ audioState.currentTime > 0
  /\ audioState.volume # FullVolume

(* C10: PLAY with a selected track whose url is not empty forwards one        *)
(* PLAY_AUDIO carrying that url; if the forward succeeds isPlaying is true,   *)
(* if it fails isPlaying is false; either way no exception escapes and the    *)
(* intent is answered, persisted and broadcast.                               *)
C10_PlayForwardsOrRollsBack ==
  (/\ Handled("PLAY")
   /\ pre.currentIndex >= 0
   /\ pre.currentIndex < Len(pre.playlist)
   /\ pre.playlist[pre.currentIndex + 1].url # "")
  => /\ Len(Sent) = 1
     /\ Sent[1].ev = "PLAY_AUDIO"
     /\ Sent[1].url = pre.playlist[pre.currentIndex + 1].url
     /\ audioState.isPlaying = Sent[1].ok
     /\ ~threw
     /\ responded
     /\ Saved /\ StoreMatchesState
     /\ broadcast = <<audioState>>

\* A PLAY whose forward was rejected rolled a playing flag back.
C10_Witness ==
  /\ Handled("PLAY")
  /\ Len(Sent) = 1
  /\ ~Sent[1].ok
  /\ pre.isPlaying
  /\ ~audioState.isPlaying
  /\ responded

(* C11: ADD_TRACK(track) appends the track at the end of the playlist; a      *)
(* currentIndex of -1 becomes 0 and any other currentIndex is unchanged;      *)
(* isPlaying is unchanged and no command is forwarded to the engine.          *)
C11_AddTrackFrame ==
  Handled("ADD_TRACK")
  => /\ audioState.playlist = Append(pre.playlist, msg.track)
     /\ audioState.currentIndex = (IF pre.currentIndex = -1 THEN 0 ELSE pre.currentIndex)
     /\ audioState.isPlaying = pre.isPlaying
     /\ Sent = <<>>

\* A track was added while another than the first one was selected and playing.
C11_Witness ==
  /\ Handled("ADD_TRACK")
  /\ pre.currentIndex >= 1
  /\ pre.isPlaying
  /\ Len(audioState.playlist) = Len(pre.playlist) + 1
  /\ audioState.currentIndex = pre.currentIndex

(* C12: REMOVE_TRACK or SET_CURRENT_TRACK with an id no playlist track has,   *)
(* and NEXT_TRACK or PREVIOUS_TRACK on an empty playlist, leave the playlist  *)
(* and every transport field as they were and forward no command.             *)
C12_ValidationNoop ==
  (\/ /\ Handled("REMOVE_TRACK") \/ Handled("SET_CURRENT_TRACK")
      /\ findIndex(pre.playlist, msg.trackId) = -1
   \/ /\ Handled("NEXT_TRACK") \/ Handled("PREVIOUS_TRACK")
      /\ Len(pre.playlist) = 0)
  => /\ audioState = pre
     /\ Sent = <<>>
     /\ ~threw

\* An unknown id was asked for while a track of a non-empty playlist played.
C12_Witness ==
  /\ Handled("SET_CURRENT_TRACK")
  /\ findIndex(pre.playlist, msg.trackId) = -1
  /\ Len(pre.playlist) >= 1
  /\ pre.isPlaying
  /\ audioState.isPlaying
  /\ responded

(* C13 (as claimed): when the first forward to the engine fails while PAUSE,  *)
(* STOP, SEEK, SET_VOLUME, SET_CURRENT_TRACK, NEXT_TRACK, PREVIOUS_TRACK or   *)
(* REMOVE_TRACK is handled, the handler still completes: the sender is        *)
(* answered, isPlaying is false, and the state is persisted and broadcast.    *)
C13_ForwardFailureHandled ==
  (/\ \/ Handled("PAUSE") \/ Handled("STOP") \/ Handled("SEEK") \/ Handled("SET_VOLUME")
      \/ Handled("SET_CURRENT_TRACK") \/ Handled("NEXT_TRACK")
      \/ Handled("PREVIOUS_TRACK") \/ Handled("REMOVE_TRACK")
   /\ Len(Sent) >= 1
   /\ ~Sent[1].ok)
  => /\ responded
     /\ ~threw
     /\ ~audioState.isPlaying
     /\ Saved /\ StoreMatchesState
     /\ broadcast = <<audioState>>

-----------------------------------------------------------------------------
(* Engine reports. SpecReports interleaves the AUDIO_STATE_UPDATE messages   *)
(* the engine sends on its device events with the intents and reports that   *)
(* start, stop and end playback or change the playlist.                      *)

\* The volumes of the device: setVolume keeps them inside [0,1], 0 included.
DeviceVolumes == {0, 50}

\* The audio element as the engine may find it: fresh, with a source of
\* duration MaxTime that has not ended, or played to the end of its source.
Devices ==
  {FreshDevice} \cup
  {Snapshot(t, MaxTime, v, p, FALSE) : t \in Times, v \in DeviceVolumes, p \in BOOLEAN} \cup
  {Snapshot(MaxTime, MaxTime, v, p, TRUE) : v \in DeviceVolumes, p \in BOOLEAN}

\* getAudioState: the snapshot of the device, each number through x || default.
getAudioState(device) ==
  Snapshot(OrElse(device.currentTime, 0), OrElse(device.duration, 0),
           OrElse(device.volume, FullVolume), device.paused, device.ended)

\* The snapshots the engine sends.
Snapshots == {getAudioState(device) : device \in Devices}

\* An AUDIO_STATE_UPDATE. report is message.state: <<>> when the message
\* carries none, else <<snapshot>>; from is the device the snapshot was read
\* from, which the message does not carry.
ReportMessage(report, from) ==
  [action |-> "AUDIO_STATE_UPDATE", trackId |-> "", track |-> NoTrack, value |-> 0,
   report |-> report, from |-> from]

\* handleAudioStateUpdate deriving isPlaying from paused alone (mutant of
\* handleAudioStateUpdate).
handleAudioStateUpdateIgnoresEnded(c, report) ==
  IF report = <<>> THEN c
  ELSE LET r == report[1]
       IN [c EXCEPT !.st.currentTime = OrElse(r.currentTime, 0),
                    !.st.duration = OrElse(r.duration, 0),
                    !.st.volume = OrElse(r.volume, FullVolume),
                    !.st.isPlaying = ~r.paused]

\* handleAudioStateUpdate: x || y keeps x unless it is falsy, and 0 is falsy.
handleAudioStateUpdate(c, report) ==
  IF report = <<>> THEN c
  ELSE LET r == report[1]
       IN [c EXCEPT !.st.currentTime = OrElse(r.currentTime, 0),
                    !.st.duration = OrElse(r.duration, 0),
                    !.st.volume = OrElse(r.volume, FullVolume),
                    !.st.isPlaying = ~r.paused /\ ~r.ended]

\* case 'AUDIO_STATE_UPDATE': apply the report, broadcast, answer, return.
audioStateUpdate(m) ==
  LET c == handleAudioStateUpdate(Ctx(audioState), m.report)
  IN /\ msg' = m
     /\ pre' = audioState
     /\ audioState' = c.st
     /\ threw' = FALSE
     /\ responded' = TRUE
     /\ log' = c.events
     /\ broadcast' = <<c.st>>
     /\ UNCHANGED store
     /\ UNCHANGED outside

AudioStateUpdate ==
  \/ audioStateUpdate(ReportMessage(<<>>, <<>>))
  \/ \E device \in Devices :
       audioStateUpdate(ReportMessage(<<getAudioState(device)>>, <<device>>))

NextReports ==
  \/ Play
  \/ Pause
  \/ AddTrack
  \/ RemoveTrack
  \/ TrackEnded
  \/ AudioError
  \/ AudioStateUpdate

SpecReports == Init /\ [][NextReports]_vars

(* C14 (as claimed): after the controller has applied and answered any of     *)
(* PLAY, PAUSE, STOP, SEEK, SET_VOLUME, ADD_TRACK, REMOVE_TRACK,              *)
(* SET_CURRENT_TRACK, NEXT_TRACK, PREVIOUS_TRACK, AUDIO_STATE_UPDATE,         *)
(* TRACK_ENDED or AUDIO_ERROR, it has written the full canonical state to the *)
(* store and has broadcast it.                                                *)
C14_PersistAndBroadcast ==
  (/\ \/ Handled("PLAY") \/ Handled("PAUSE") \/ Handled("STOP") \/ Handled("SEEK")
      \/ Handled("SET_VOLUME") \/ Handled("ADD_TRACK") \/ Handled("REMOVE_TRACK")
      \/ Handled("SET_CURRENT_TRACK") \/ Handled("NEXT_TRACK")
      \/ Handled("PREVIOUS_TRACK") \/ Handled("AUDIO_STATE_UPDATE")
      \/ Handled("TRACK_ENDED") \/ Handled("AUDIO_ERROR")
   /\ responded)
  => /\ Saved
     /\ StoreMatchesState
     /\ Len(broadcast) >= 1
     /\ \A i \in 1..Len(broadcast) : broadcast[i] = audioState

(* C15: handling AUDIO_ERROR sets isPlaying to false, leaves the playlist and *)
(* currentIndex unchanged (the track stays selected) and forwards no command  *)
(* to the engine.                                                             *)
C15_ErrorStopsNoRetry ==
  Handled("AUDIO_ERROR")
  => /\ ~audioState.isPlaying
     /\ audioState.playlist = pre.playlist
     /\ audioState.currentIndex = pre.currentIndex
     /\ Sent = <<>>
     /\ responded

\* The engine reported an error while a selected track was marked playing.
C15_Witness ==
  /\ Handled("AUDIO_ERROR")
  /\ pre.isPlaying
  /\ pre.currentIndex >= 0
  /\ pre.playlist[pre.currentIndex + 1].url # ""
  /\ ~audioState.isPlaying
  /\ audioState.currentIndex = pre.currentIndex

-----------------------------------------------------------------------------
(* Start-up on any persisted record. SpecLoad starts a fresh controller on   *)
(* a store holding a record an earlier run wrote, possibly damaged since: a  *)
(* playlist that is no array, fields that are missing.                       *)

\* In a stored record's playlist field: a value that fails Array.isArray.
NotArray == [isArray |-> FALSE]

\* The playlists of the records: the first tracks of one list of tracks.
SavedPlaylists ==
  {SubSeq(<<[id |-> "t1", url |-> "u1"], [id |-> "t2", url |-> "u2"],
            [id |-> "t3", url |-> ""]>>, 1, n) : n \in 0..MaxTracks}

\* The states an earlier run saved: each satisfies the index invariant.
SavedStates ==
  {[isPlaying |-> b, currentTime |-> t, duration |-> 0, playlist |-> p,
    currentIndex |-> i, volume |-> v] :
     b \in BOOLEAN, t \in Times, p \in SavedPlaylists,
     i \in -1..(MaxTracks - 1), v \in {50, FullVolume}}

ValidIndex(st) ==
  IF Len(st.playlist) = 0 THEN st.currentIndex = -1
  ELSE 0 <= st.currentIndex /\ st.currentIndex < Len(st.playlist)

\* The record of st with only the fields in kept, and with the playlist
\* replaced by a non-array when malformed.
Damaged(st, kept, malformed) ==
  [present |-> TRUE,
   data |-> [f \in kept |-> IF f = "playlist" /\ malformed
                            THEN NotArray ELSE Serialize(st)[f]]]

FoundRecords ==
  {NoRecord} \cup
  {Damaged(st, kept, malformed) :
     st \in {s \in SavedStates : ValidIndex(s)}, kept \in SUBSET Fields,
     malformed \in BOOLEAN}

InitLoad ==
  /\ audioState = DefaultState
  /\ store \in FoundRecords
  /\ msg = Message("NONE", "", NoTrack, 0)
  /\ pre = DefaultState
  /\ log = <<>>
  /\ responded = FALSE
  /\ threw = FALSE
  /\ broadcast = <<>>
  /\ engine = EngineIdle
  /\ panel = PanelOpened
  /\ pending = <<>>
  /\ chrome = ChromeIdle

NextLoad == Startup

SpecLoad == InitLoad /\ [][NextLoad]_vars

(* C16 (as claimed): for every persisted record found at start-up, including  *)
(* one whose playlist is missing or no array and one that lacks fields, the   *)
(* loaded state has an empty playlist in place of a malformed one and         *)
(* satisfies the index invariant: currentIndex is -1 exactly when the         *)
(* playlist is empty and is otherwise a valid index.                          *)
C16_LoadRepairs ==
  Handled("STARTUP")
  => /\ (/\ log[1].ok
         /\ store.present
         /\ ("playlist" \notin DOMAIN store.data \/ ~store.data["playlist"].isArray))
          => audioState.playlist = <<>>
     /\ ValidIndex(audioState)

-----------------------------------------------------------------------------
(* The engine's playAudio. SpecEngine runs playAudio calls against a device  *)
(* that may fire loadeddata, canplay, error and abort in any order, or none  *)
(* of them; the controller stands still.                                     *)

Urls == {"u1", "u2"}
ReadySignals == {"loadeddata", "canplay"}
FailureSignals == {"error", "abort", "timeout"}

\* audio.pause(), and audio.currentTime = 0.
pauseDevice(device) == [device EXCEPT !.paused = TRUE]
rewind(device) == [device EXCEPT !.currentTime = 0, !.ended = FALSE]

\* audio.src = url and audio.load(): the element starts over on the new
\* source, paused at 0 with no duration yet; its volume stays.
load(device) == Snapshot(0, 0, device.volume, TRUE, FALSE)

\* playAudio without the setTimeout (mutant of playAudio).
playAudioNoTimeout(e, k, url) ==
  [e EXCEPT !.src = url,
            !.calls[k] = [IdleCall EXCEPT !.phase = "waiting", !.listening = TRUE],
            !.device = load(IF e.src # "" /\ e.src # url
                            THEN rewind(pauseDevice(@)) ELSE @)]

\* playAudio binding the url only when no call is waiting on another load
\* (mutant of playAudio).
playAudioKeepsLoading(e, k, url) ==
  IF \E j \in Calls : e.calls[j].phase = "waiting"
  THEN [e EXCEPT !.calls[k] = [IdleCall EXCEPT !.phase = "waiting",
                                               !.listening = TRUE, !.timer = TRUE]]
  ELSE [e EXCEPT !.src = url,
                 !.calls[k] = [IdleCall EXCEPT !.phase = "waiting",
                                               !.listening = TRUE, !.timer = TRUE],
                 !.device = load(IF e.src # "" /\ e.src # url
                                 THEN rewind(pauseDevice(@)) ELSE @)]

\* playAudio up to its await: pause and rewind if another source is bound,
\* bind the source, create the promise with its flag, its timeout and its
\* four listeners, and trigger the load.
playAudio(e, k, url) ==
  [e EXCEPT !.src = url,
            !.calls[k] = [IdleCall EXCEPT !.phase = "waiting", !.listening = TRUE,
                                          !.timer = TRUE],
            !.device = load(IF e.src # "" /\ e.src # url
                            THEN rewind(pauseDevice(@)) ELSE @)]

\* stopAudio dropping the source and the calls in progress as well (mutant of
\* stopAudio).
stopAudioCancels(e) ==
  [e EXCEPT !.src = "", !.calls = [k \in Calls |-> IdleCall],
            !.device = rewind(pauseDevice(@))]

\* stopAudio: pause and rewind; the source and the calls are left alone.
stopAudio(e) == [e EXCEPT !.device = rewind(pauseDevice(@))]

\* The body onLoadedData, onCanPlay, onError, onAbort and the timeout callback
\* share: if not resolved yet, set the flag, clean up, and settle the promise.
settle(call, sig) ==
  IF ~call.resolved
  THEN [call EXCEPT !.phase = IF sig \in ReadySignals THEN "ready" ELSE "failed",
                    !.resolved = TRUE, !.listening = FALSE, !.timer = FALSE,
                    !.signal = sig, !.settled = @ + 1]
  ELSE call

\* The device fires an event: every call whose listeners are attached hears it.
deviceEvent(e, sig) ==
  [e EXCEPT !.calls = [k \in Calls |-> IF e.calls[k].listening
                                       THEN settle(e.calls[k], sig) ELSE e.calls[k]]]

\* The 30-second timer of call k fires.
timeout(e, k) ==
  [e EXCEPT !.calls[k] = settle([@ EXCEPT !.timer = FALSE], "timeout")]

\* After the await: audio.play() if the promise resolved, and the catch block,
\* which sends AUDIO_ERROR, if the promise or audio.play() rejected.
afterWait(e, k, playOk) ==
  IF e.calls[k].phase = "ready"
  THEN IF playOk
       THEN [e EXCEPT !.calls[k].phase = "started", !.calls[k].attempts = @ + 1,
                      !.device.paused = FALSE]
       ELSE [e EXCEPT !.calls[k].phase = "reported", !.calls[k].attempts = @ + 1,
                      !.calls[k].errors = @ + 1]
  ELSE [e EXCEPT !.calls[k].phase = "reported", !.calls[k].errors = @ + 1]

controller == <<audioState, store, msg, pre, log, responded, threw, broadcast>>

PlayAudio == \E k \in Calls, url \in Urls :
  /\ engine.calls[k].phase \in {"idle", "started", "reported"}
  /\ engine' = [playAudio(engine, k, url) EXCEPT
                  !.command = "PLAY_AUDIO", !.requested = url,
                  !.pausedAt = IF engine.command = "PAUSE_AUDIO" /\ url = engine.src
                               THEN @ ELSE NoPosition]
  /\ UNCHANGED <<controller, panel, pending, chrome>>

DeviceEvent == \E sig \in ReadySignals \cup {"error", "abort"} :
  /\ \E k \in Calls : engine.calls[k].listening
  /\ engine' = deviceEvent(engine, sig)
  /\ UNCHANGED <<controller, panel, pending, chrome>>

TimeoutOf(k) ==
  /\ engine.calls[k].timer
  /\ engine' = timeout(engine, k)
  /\ UNCHANGED <<controller, panel, pending, chrome>>

Timeout == \E k \in Calls : TimeoutOf(k)

AfterWaitOf(k) == \E playOk \in BOOLEAN :
  /\ engine.calls[k].phase \in {"ready", "failed"}
  /\ engine' = afterWait(engine, k, playOk)
  /\ UNCHANGED <<controller, panel, pending, chrome>>

AfterWait == \E k \in Calls : AfterWaitOf(k)

StopAudio ==
  /\ engine' = [stopAudio(engine) EXCEPT !.command = "STOP_AUDIO",
                                         !.pausedAt = NoPosition]
  /\ UNCHANGED <<controller, panel, pending, chrome>>

NextEngine ==
  \/ PlayAudio
  \/ StopAudio
  \/ DeviceEvent
  \/ Timeout
  \/ AfterWait

\* An armed timer fires, and a settled promise's continuation runs.
SpecEngine ==
  /\ Init
  /\ [][NextEngine]_vars
  /\ \A k \in Calls : WF_vars(TimeoutOf(k)) /\ WF_vars(AfterWaitOf(k))

Finished(call) == call.phase \in {"started", "reported"}

(* C17: every playAudio call finishes and the promise it waits on settles     *)
(* exactly once: the call either calls audio.play() after loadeddata or       *)
(* canplay, or sends one AUDIO_ERROR after an error, an abort or the timeout  *)
(* (or after audio.play() rejected); no call waits forever.                   *)
C17_PlayAudioSettles ==
  /\ [](\A k \in Calls :
          LET call == engine.calls[k]
          IN /\ call.settled <= 1
             /\ call.phase \in {"ready", "failed", "started", "reported"} => call.settled = 1
             /\ call.phase = "started" =>
                  call.signal \in ReadySignals /\ call.attempts = 1 /\ call.errors = 0
             /\ call.phase = "reported" =>
                  /\ call.errors = 1
                  /\ \/ call.signal \in FailureSignals /\ call.attempts = 0
                     \/ call.signal \in ReadySignals /\ call.attempts = 1)
  /\ \A k \in Calls : (engine.calls[k].phase = "waiting") ~> Finished(engine.calls[k])

\* One call ran into its timeout while another call had started playback.
C17_Witness ==
  /\ engine.calls[1].phase = "reported"
  /\ engine.calls[1].signal = "timeout"
  /\ engine.calls[1].settled = 1
  /\ engine.calls[2].phase = "started"

-----------------------------------------------------------------------------
(* The panel's track list. SpecPanel shows the panel canonical states, as a  *)
(* STATE_BROADCAST or a GET_STATE response delivers them, and clicks tracks. *)

\* handleSelectTrack up to its await: the index looked up in the local copy,
\* the optimistic local update, and the SET_CURRENT_TRACK it sends.
handleSelectTrack(p, trackId) ==
  LET trackIndex == OrElse(findIndex(p.local.playlist, trackId), -1)
  IN IF trackIndex # -1 /\ trackIndex # p.local.currentIndex
     THEN [local |-> [p.local EXCEPT !.currentTime = 0, !.currentIndex = trackIndex],
           clicked |-> trackId, before |-> p.local,
           sent |-> <<Message("SET_CURRENT_TRACK", trackId, NoTrack, 0)>>]
     ELSE [local |-> p.local, clicked |-> trackId, before |-> p.local, sent |-> <<>>]

\* messageListener on STATE_BROADCAST, and loadState and the periodic sync on a
\* GET_STATE response: a state with a playlist replaces the local copy.
receiveState(p, st) ==
  [local |-> st, clicked |-> "", before |-> p.local, sent |-> <<>>]

ReceiveState == \E st \in {s \in SavedStates : ValidIndex(s)} :
  /\ panel' = receiveState(panel, st)
  /\ UNCHANGED <<controller, engine, pending, chrome>>

SelectTrack == \E trackId \in TrackIds :
  /\ panel' = handleSelectTrack(panel, trackId)
  /\ UNCHANGED <<controller, engine, pending, chrome>>

NextPanel ==
  \/ ReceiveState
  \/ SelectTrack

SpecPanel == Init /\ [][NextPanel]_vars

(* C18 (as claimed): clicking a track shown in the panel's playlist that is   *)
(* not the selected one, at any index including 0, sets the panel's local     *)
(* currentIndex to that track's index at once and sends SET_CURRENT_TRACK     *)
(* with that track's id.                                                      *)
C18_ClickSelects ==
  (/\ panel.clicked # ""
   /\ findIndex(panel.before.playlist, panel.clicked) # -1
   /\ findIndex(panel.before.playlist, panel.clicked) # panel.before.currentIndex)
  => /\ panel.local.currentIndex = findIndex(panel.before.playlist, panel.clicked)
     /\ panel.sent = <<Message("SET_CURRENT_TRACK", panel.clicked, NoTrack, 0)>>


(* C19 (as claimed): after any sequence of ADD_TRACK intents, with            *)
(* REMOVE_TRACK in between, no two tracks of the canonical playlist have the  *)
(* same id.                                                                   *)
C19_NoDuplicateIds == DistinctIds(audioState.playlist)

-----------------------------------------------------------------------------
(* Handlers suspended on an await. In SpecAsync a step runs a handler from   *)
(* the arrival of its message, or from the completion of the forward it      *)
(* awaits, to its next forward or to its end; messages arriving meanwhile    *)
(* start their own handlers. Every forward succeeds.                         *)

MaxPending == 2     \* handlers suspended at once

\* A suspended handler: the message it handles, the forward it awaits, and
\* the locals it resumes with.
Suspended(index, wasPlaying, message, awaiting) ==
  [index |-> index, wasPlaying |-> wasPlaying, message |-> message,
   awaiting |-> awaiting]

Forward(action, url) == Event(action, url, 0, TRUE)

\* The end of handleMessage: sendResponse, saveState, broadcastStateUpdate.
finish(m, st, events) ==
  /\ msg' = m
  /\ pre' = audioState
  /\ audioState' = st
  /\ threw' = FALSE
  /\ responded' = TRUE
  /\ log' = Append(events, Event("storage.set", "", 0, TRUE))
  /\ store' = StoredRecord(st)
  /\ broadcast' = <<st>>

\* The handler of m stops at an await with the state st.
suspend(m, st, events) ==
  /\ msg' = m
  /\ pre' = audioState
  /\ audioState' = st
  /\ threw' = FALSE
  /\ responded' = FALSE
  /\ log' = events
  /\ broadcast' = <<>>
  /\ UNCHANGED store

\* stop after its await.
stopResumed(st) == [st EXCEPT !.isPlaying = FALSE, !.currentTime = 0]

\* play up to its await: TRUE if it forwards PLAY_AUDIO.
playForwards(st) ==
  /\ st.currentIndex >= 0 /\ Len(st.playlist) > 0
  /\ st.currentIndex < Len(st.playlist)
  /\ st.playlist[st.currentIndex + 1].url # ""

\* play when it does not forward: the else branch, or nothing at all.
playSkipped(st) ==
  IF st.currentIndex >= 0 /\ Len(st.playlist) > 0
  THEN [st EXCEPT !.isPlaying = FALSE] ELSE st

\* play: forward and suspend, or finish the handler.
playOrFinish(m, st, events, others) ==
  IF playForwards(st)
  THEN /\ suspend(m, st, Append(events, Forward("PLAY_AUDIO", st.playlist[st.currentIndex + 1].url)))
       /\ pending' = Append(others, Suspended(st.currentIndex, TRUE, m, "play"))
  ELSE /\ finish(m, playSkipped(st), events)
       /\ pending' = others

\* removeTrack up to its await.
removeTrackToAwait(c, trackId) ==
  LET index == findIndex(c.st.playlist, trackId)
  IN IF index # -1
     THEN LET c1 == [c EXCEPT !.st.playlist = splice(@, index)]
              c2 == IF c1.st.currentIndex >= Len(c1.st.playlist)
                    THEN setIndex(c1, Max(0, Len(c1.st.playlist) - 1))
                    ELSE c1
          IN IF Len(c2.st.playlist) = 0 THEN setIndex(c2, -1) ELSE c2
     ELSE c

\* setCurrentTrack, nextTrack: take wasPlaying, forward STOP_AUDIO, suspend.
selectAsync(m, index) ==
  /\ Len(pending) < MaxPending
  /\ suspend(m, audioState, <<Forward("STOP_AUDIO", "")>>)
  /\ pending' = Append(pending, Suspended(index, audioState.isPlaying, m, "stopThenSelect"))

AsyncAddTrack == \E t \in Tracks :
  /\ Len(audioState.playlist) < MaxTracks
  /\ LET c == addTrack(Ctx(audioState), t)
     IN finish(Message("ADD_TRACK", "", t, 0), c.st, c.events)
  /\ UNCHANGED <<pending, engine, panel, chrome>>

AsyncRemoveTrack == \E trackId \in TrackIds :
  LET m == Message("REMOVE_TRACK", trackId, NoTrack, 0)
      c == removeTrackToAwait(Ctx(audioState), trackId)
  IN /\ IF findIndex(audioState.playlist, trackId) # -1 /\ Len(c.st.playlist) = 0
        THEN /\ Len(pending) < MaxPending
             /\ suspend(m, c.st, Append(c.events, Forward("STOP_AUDIO", "")))
             /\ pending' = Append(pending, Suspended(-1, FALSE, m, "stop"))
        ELSE /\ finish(m, c.st, c.events)
             /\ UNCHANGED pending
     /\ UNCHANGED <<engine, panel, chrome>>

AsyncNextTrack ==
  LET m == Message("NEXT_TRACK", "", NoTrack, 0)
  IN /\ IF Len(audioState.playlist) = 0
        THEN finish(m, audioState, <<>>) /\ UNCHANGED pending
        ELSE selectAsync(m, (audioState.currentIndex + 1) % Len(audioState.playlist))
     /\ UNCHANGED <<engine, panel, chrome>>

AsyncSetCurrentTrack == \E trackId \in TrackIds :
  LET m == Message("SET_CURRENT_TRACK", trackId, NoTrack, 0)
      index == findIndex(audioState.playlist, trackId)
  IN /\ IF index = -1
        THEN finish(m, audioState, <<>>) /\ UNCHANGED pending
        ELSE selectAsync(m, index)
     /\ UNCHANGED <<engine, panel, chrome>>

AsyncPlay ==
  /\ playForwards(audioState) => Len(pending) < MaxPending
  /\ playOrFinish(Message("PLAY", "", NoTrack, 0), audioState, <<>>, pending)
  /\ UNCHANGED <<engine, panel, chrome>>

\* The forward a suspended handler awaits completes, in any order.
Resume == \E k \in 1..Len(pending) :
  LET h == pending[k]
      others == SubSeq(pending, 1, k - 1) \o SubSeq(pending, k + 1, Len(pending))
  IN /\ CASE h.awaiting = "stop" ->
               finish(h.message, stopResumed(audioState), <<>>) /\ pending' = others
          [] h.awaiting = "stopThenSelect" ->
               LET c == setIndex(Ctx(stopResumed(audioState)), h.index)
               IN IF h.wasPlaying
                  THEN playOrFinish(h.message, c.st, c.events, others)
                  ELSE finish(h.message, c.st, c.events) /\ pending' = others
          [] h.awaiting = "play" ->
               finish(h.message, [audioState EXCEPT !.isPlaying = TRUE], <<>>)
               /\ pending' = others
     /\ UNCHANGED <<engine, panel, chrome>>

NextAsync ==
  \/ AsyncAddTrack
  \/ AsyncRemoveTrack
  \/ AsyncNextTrack
  \/ AsyncSetCurrentTrack
  \/ AsyncPlay
  \/ Resume

SpecAsync == Init /\ [][NextAsync]_vars

(* C20 (as claimed): when messages arrive while another handler is suspended  *)
(* on a forward to the engine, the handlers do not overlap: after every       *)
(* handler completes, currentIndex is -1 exactly when the playlist is empty   *)
(* and is otherwise a valid index.                                            *)
C20_HandlersDoNotOverlap == responded => ValidIndex(audioState)

-----------------------------------------------------------------------------
(* C21 (as claimed): after AUDIO_STATE_UPDATE(snapshot) the canonical         *)
(* currentTime, duration and volume equal the snapshot's, for every volume in *)
(* [0,1], and the volume of the snapshot equals the volume of the device it   *)
(* was read from.                                                             *)
C21_ReportVerbatim ==
  (Handled("AUDIO_STATE_UPDATE") /\ msg.report # <<>>)
  => /\ audioState.currentTime = msg.report[1].currentTime
     /\ audioState.duration = msg.report[1].duration
     /\ audioState.volume = msg.report[1].volume
     /\ msg.report[1].volume = msg.from[1].volume

(* C22: after AUDIO_STATE_UPDATE(snapshot) isPlaying equals (not paused and   *)
(* not ended) of the snapshot, whatever isPlaying was before, and the         *)
(* playlist and currentIndex are unchanged.                                   *)
C22_DeviceFlagsWin ==
  (Handled("AUDIO_STATE_UPDATE") /\ msg.report # <<>>)
  => /\ audioState.isPlaying = (~msg.report[1].paused /\ ~msg.report[1].ended)
     /\ audioState.playlist = pre.playlist
     /\ audioState.currentIndex = pre.currentIndex

\* A report of a device that ran to the end of its source, not paused, reached
\* a controller that held a selected track to be playing.
C22_Witness ==
  /\ Handled("AUDIO_STATE_UPDATE")
  /\ msg.report # <<>>
  /\ msg.report[1].ended /\ ~msg.report[1].paused
  /\ pre.isPlaying
  /\ pre.currentIndex >= 0
  /\ ~audioState.isPlaying
  /\ audioState.currentIndex = pre.currentIndex


\* The message handled selected a track: SET_CURRENT_TRACK named a track of the
\* playlist, or NEXT_TRACK or PREVIOUS_TRACK met a playlist that is not empty.
Selecting ==
  \/ Handled("SET_CURRENT_TRACK") /\ findIndex(pre.playlist, msg.trackId) # -1
  \/ Handled("NEXT_TRACK") /\ Len(pre.playlist) > 0
  \/ Handled("PREVIOUS_TRACK") /\ Len(pre.playlist) > 0

\* With playback off, the selection forwards STOP_AUDIO and no PLAY_AUDIO and
\* leaves playback off.
StaysOff ==
  ~pre.isPlaying =>
    /\ Len(Sent) = 1 /\ Sent[1].ev = "STOP_AUDIO"
    /\ ~audioState.isPlaying

(* C25 (as claimed): SET_CURRENT_TRACK, NEXT_TRACK and PREVIOUS_TRACK         *)
(* preserve play/pause: with isPlaying false before, STOP_AUDIO and no        *)
(* PLAY_AUDIO is forwarded and isPlaying is false afterwards; with isPlaying  *)
(* true before and every forward succeeding, isPlaying is true afterwards.    *)
C25_PreservesPlayPause ==
  Selecting =>
    /\ StaysOff
    /\ (pre.isPlaying /\ AllForwardsOk) => audioState.isPlaying

(* C25 (amended): the same, except that with isPlaying true before and every  *)
(* forward succeeding isPlaying is true afterwards exactly when the track     *)
(* selected has a url that is not empty.                                      *)
C25_PreservesPlayPauseUrl ==
  Selecting =>
    /\ StaysOff
    /\ (pre.isPlaying /\ AllForwardsOk) =>
         (audioState.isPlaying
            <=> audioState.playlist[audioState.currentIndex + 1].url # "")

\* PREVIOUS_TRACK wrapped from the first track to the last while playing and
\* playback went on; the state before was reached with playback on.
C25_Witness ==
  /\ Handled("PREVIOUS_TRACK")
  /\ pre.isPlaying
  /\ pre.currentIndex = 0
  /\ audioState.currentIndex = Len(audioState.playlist) - 1
  /\ audioState.currentIndex > 0
  /\ audioState.isPlaying
  /\ AllForwardsOk

(* C30 (as claimed): in every reachable state isPlaying implies that the      *)
(* playlist is not empty and currentIndex is a valid index, engine reports    *)
(* that arrive after the last track was removed included.                     *)
C30_PlayingHasTrack ==
  audioState.isPlaying =>
    /\ Len(audioState.playlist) > 0
    /\ 0 <= audioState.currentIndex
    /\ audioState.currentIndex < Len(audioState.playlist)


(* C26: a STOP_AUDIO the engine applies while a playAudio call waits for its  *)
(* source cancels nothing: stopAudio leaves the bound source and every call   *)
(* in progress as they are, so that there is an interleaving in which the     *)
(* device plays although the last command was STOP_AUDIO.                     *)
C26_StopDoesNotCancel ==
  [][StopAudio => (engine'.calls = engine.calls /\ engine'.src = engine.src)]_vars

\* STOP_AUDIO was the last command the engine took, and a call that was
\* waiting for its source then has started playback since.
C26_Witness ==
  /\ engine.command = "STOP_AUDIO"
  /\ ~engine.device.paused
  /\ \E k \in Calls : engine.calls[k].phase = "started"


-----------------------------------------------------------------------------
(* The engine's device listeners. SpecListeners lets the audio element fire  *)
(* its events, in any state an event can find it in, and records what the    *)
(* listeners of setupAudioEventListeners send.                               *)

DeviceEvents ==
  {"loadeddata", "canplay", "error", "loadedmetadata", "loadstart", "timeupdate",
   "play", "pause", "ended", "volumechange", "seeking", "seeked", "waiting", "playing"}

\* The states the element can be in when it fires ev.
Firing(ev) ==
  {device \in Devices :
     /\ ev = "ended" => device.ended
     /\ ev \in {"play", "playing"} => ~device.paused
     /\ ev = "pause" => device.paused}

\* A message of the engine that carries nothing the controller reads but its
\* action.
Notice(action) == Message(action, "", NoTrack, 0)

sendStateUpdate(device) == ReportMessage(<<getAudioState(device)>>, <<device>>)

\* The listeners, by event: the messages each sends, in order.
listeners(ev, device) ==
  CASE ev \in {"loadedmetadata", "timeupdate", "play", "pause", "volumechange",
               "seeking", "seeked"} -> <<sendStateUpdate(device)>>
    [] ev = "loadstart" -> <<Notice("LOADING_STARTED")>>
    [] ev = "loadeddata" -> <<Notice("LOADING_READY")>>
    [] ev = "canplay" -> <<Notice("CAN_PLAY")>>
    [] ev = "ended" -> <<sendStateUpdate(device), Notice("TRACK_ENDED")>>
    [] ev = "error" -> <<Notice("AUDIO_ERROR")>>
    [] ev = "waiting" -> <<Notice("BUFFERING")>>
    [] ev = "playing" -> <<Notice("PLAYING")>>

HearEvent == \E ev \in DeviceEvents : \E device \in Firing(ev) :
  /\ engine' = [engine EXCEPT !.device = device, !.heard = ev]
  /\ chrome' = [chrome EXCEPT !.reports = listeners(ev, device)]
  /\ UNCHANGED <<controller, panel, pending>>

NextListeners == HearEvent

SpecListeners == Init /\ [][NextListeners]_vars

\* The events the claim has answered by a snapshot: metadata-loaded,
\* time-advanced, started, paused, volume-changed, seek-started,
\* seek-completed, buffering-started and playable.
SnapshotEvents ==
  {"canplay", "loadedmetadata", "timeupdate", "play", "pause", "volumechange",
   "seeking", "seeked", "waiting"}

\* The engine sent a message with this action on the last event.
Reported(action) ==
  \E i \in 1..Len(chrome.reports) : chrome.reports[i].action = action

(* C24 (as claimed): each of the events metadata-loaded, time-advanced,       *)
(* started, paused, volume-changed, seek-started, seek-completed,             *)
(* buffering-started and playable makes the engine send an AUDIO_STATE_UPDATE *)
(* with the snapshot of the device; ended makes it send TRACK_ENDED and error *)
(* AUDIO_ERROR.                                                               *)
C24_EventsReported ==
  /\ engine.heard \in SnapshotEvents =>
       \E i \in 1..Len(chrome.reports) :
          /\ chrome.reports[i].action = "AUDIO_STATE_UPDATE"
          /\ chrome.reports[i].report = <<getAudioState(engine.device)>>
  /\ engine.heard = "ended" => Reported("TRACK_ENDED")
  /\ engine.heard = "error" => Reported("AUDIO_ERROR")


-----------------------------------------------------------------------------
(* Creating the engine. In SpecOffscreen handlers that forward one command   *)
(* run sendToOffscreen side by side: a step takes one of them from one await *)
(* to the next. The host keeps at most one offscreen document and rejects    *)
(* createDocument while one exists; the send itself succeeds.                *)

\* The intents whose handler forwards one command whatever the state is.
Forwarding ==
  {Message("PAUSE", "", NoTrack, 0), Message("STOP", "", NoTrack, 0),
   Message("SET_VOLUME", "", NoTrack, 50)}

\* All of pending but its k-th handler.
Others(k) == SubSeq(pending, 1, k - 1) \o SubSeq(pending, k + 1, Len(pending))

\* A message arrives and its handler runs to the first await of
\* sendToOffscreen, the hasOffscreenDocument of its first line.
Arrive == \E m \in Forwarding :
  /\ Len(pending) < MaxPending
  /\ pending' = Append(pending, Suspended(-1, FALSE, m, "hasOffscreenDocument"))
  /\ UNCHANGED <<controller, engine, panel, chrome>>

\* hasOffscreenDocument resolves in sendToOffscreen: go on to the send, or
\* call createOffscreenDocument, which asks again.
HasDocument == \E k \in 1..Len(pending) :
  /\ pending[k].awaiting = "hasOffscreenDocument"
  /\ pending' = [pending EXCEPT ![k].awaiting =
                   IF chrome.documents > 0 THEN "sendMessage" ELSE "createOffscreenDocument"]
  /\ UNCHANGED <<controller, engine, panel, chrome>>

\* hasOffscreenDocument resolves in createOffscreenDocument: return, or call
\* chrome.offscreen.createDocument.
HasDocumentAgain == \E k \in 1..Len(pending) :
  /\ pending[k].awaiting = "createOffscreenDocument"
  /\ pending' = [pending EXCEPT ![k].awaiting =
                   IF chrome.documents > 0 THEN "sendMessage" ELSE "createDocument"]
  /\ UNCHANGED <<controller, engine, panel, chrome>>

\* chrome.offscreen.createDocument settles: the document is created, or one
\* exists and the rejection goes up through createOffscreenDocument and
\* sendToOffscreen into the operation that forwards.
CreateDocument == \E k \in 1..Len(pending) :
  /\ pending[k].awaiting = "createDocument"
  /\ IF chrome.documents = 0
     THEN /\ chrome' = [chrome EXCEPT !.documents = 1]
          /\ pending' = [pending EXCEPT ![k].awaiting = "sendMessage"]
          /\ UNCHANGED controller
     ELSE /\ runHandler(pending[k].message, FALSE, TRUE, TRUE)
          /\ pending' = Others(k)
          /\ UNCHANGED chrome
  /\ UNCHANGED <<engine, panel>>

\* chrome.runtime.sendMessage resolves and the handler runs to its end.
SendMessage == \E k \in 1..Len(pending) :
  /\ pending[k].awaiting = "sendMessage"
  /\ runHandler(pending[k].message, TRUE, TRUE, TRUE)
  /\ pending' = Others(k)
  /\ UNCHANGED <<engine, panel, chrome>>

NextOffscreen ==
  \/ Arrive
  \/ HasDocument
  \/ HasDocumentAgain
  \/ CreateDocument
  \/ SendMessage

SpecOffscreen == Init /\ [][NextOffscreen]_vars

(* C23 (as claimed): when two commands each find no engine instance and both  *)
(* attempt to create one, the failure of the second creation counts as        *)
(* success: both commands are forwarded and no intent ends in a forwarding    *)
(* failure.                                                                   *)
C23_CreationRaceTolerated ==
  /\ ~threw
  /\ \A i \in 1..Len(Sent) : Sent[i].ok


-----------------------------------------------------------------------------
(* Start-up. The constructor registers the message listener and calls        *)
(* loadState without waiting for it. SpecStartup begins right after the      *)
(* constructor, with the read of the stored record in flight, and lets       *)
(* messages be handled before and after the read resolves.                   *)

\* The records a restarted controller finds: none, or a state saved earlier.
StartRecords ==
  {NoRecord} \cup {StoredRecord(st) : st \in {s \in SavedStates : ValidIndex(s)}}

InitStartup ==
  /\ audioState = DefaultState
  /\ store \in StartRecords
  /\ msg = Message("NONE", "", NoTrack, 0)
  /\ pre = DefaultState
  /\ log = <<>>
  /\ responded = FALSE
  /\ threw = FALSE
  /\ broadcast = <<>>
  /\ engine = EngineIdle
  /\ panel = PanelOpened
  /\ pending = <<>>
  /\ chrome = [ChromeIdle EXCEPT !.reads = <<store>>]

\* The await of loadState resolves, or rejects, and loadState goes on with the
\* state as the handlers have left it.
FinishLoad == \E getOk \in BOOLEAN :
  /\ chrome.reads # <<>>
  /\ runLoad(audioState, Head(chrome.reads), getOk)
  /\ chrome' = [chrome EXCEPT !.reads = Tail(@)]
  /\ UNCHANGED <<engine, panel, pending>>

NextStartup ==
  \/ AddTrack
  \/ SetVolume
  \/ FinishLoad

SpecStartup == InitStartup /\ [][NextStartup]_vars

(* C29 (as claimed): what an intent handled between the construction of the   *)
(* controller and the end of the start-up load did is still there once the    *)
(* load has finished: every track added is in the playlist and a volume that  *)
(* was set is the volume.                                                     *)
C29_LoadKeepsMutations ==
  (Handled("STARTUP") /\ chrome.reads = <<>>)
  => /\ \A i \in 1..Len(pre.playlist) :
          \E j \in 1..Len(audioState.playlist) : audioState.playlist[j] = pre.playlist[i]
     /\ pre.volume # FullVolume => audioState.volume = pre.volume


-----------------------------------------------------------------------------
(* The panel in step with the controller. In SpecSync the panel of a         *)
(* controller that holds a playlist asks for the state when it opens and     *)
(* every second after, selects tracks, and receives the answers and the      *)
(* broadcasts in any order; a broadcast may find no listener, and the send   *)
(* of an intent may fail. Every forward to the engine succeeds.              *)

MaxDeliveries == 2  \* states on their way to the panel at once

\* A state on its way to the panel: kind tells what carries it, the answer to
\* a GET_STATE of loadState or of the interval ("GET_STATE"), the response to
\* an intent ("response"), the answer to the GET_STATE of sendCommand's catch
\* block ("refresh"), or a "STATE_BROADCAST".
Delivery(kind, carries) == [kind |-> kind, carries |-> carries]

\* The state of a controller that loaded a playlist of three tracks.
Restored ==
  [DefaultState EXCEPT
     !.playlist = <<[id |-> "t1", url |-> "u1"], [id |-> "t2", url |-> "u2"],
                    [id |-> "t3", url |-> ""]>>,
     !.currentIndex = 0]

InitSync ==
  /\ audioState = Restored
  /\ store = StoredRecord(Restored)
  /\ msg = Message("NONE", "", NoTrack, 0)
  /\ pre = DefaultState
  /\ log = <<>>
  /\ responded = FALSE
  /\ threw = FALSE
  /\ broadcast = <<>>
  /\ engine = EngineIdle
  /\ panel = PanelOpened
  /\ pending = <<>>
  /\ chrome = ChromeIdle

\* GET_STATE sent once, when the panel opens, and never by an interval (mutant
\* of Poll).
PollOnActivation ==
  /\ panel = PanelOpened
  /\ Len(chrome.deliveries) < MaxDeliveries
  /\ chrome' = [chrome EXCEPT !.deliveries = Append(@, Delivery("GET_STATE", audioState))]
  /\ UNCHANGED <<controller, engine, panel, pending>>

\* GET_STATE falling through the switch to the end of handleMessage, which
\* responds with success and the state, saves and broadcasts (mutant of Poll).
PollFallsThrough ==
  /\ Len(chrome.deliveries) + 1 < MaxDeliveries
  /\ runHandler(Message("GET_STATE", "", NoTrack, 0), TRUE, TRUE, TRUE)
  /\ chrome' = [chrome EXCEPT !.deliveries =
                  Append(Append(@, Delivery("response", audioState')),
                         Delivery("STATE_BROADCAST", audioState'))]
  /\ UNCHANGED <<engine, panel, pending>>

\* loadState of the panel and the callback of its setInterval: GET_STATE is
\* sent and the controller answers with its state, changing nothing. A
\* GET_STATE that fails is caught and changes nothing either.
Poll ==
  /\ Len(chrome.deliveries) < MaxDeliveries
  /\ chrome' = [chrome EXCEPT !.deliveries = Append(@, Delivery("GET_STATE", audioState))]
  /\ UNCHANGED <<controller, engine, panel, pending>>

\* An answer or a broadcast arrives: the state it carries has a playlist and
\* replaces the local copy.
Deliver == \E k \in 1..Len(chrome.deliveries) :
  /\ panel' = receiveState(panel, chrome.deliveries[k].carries)
  /\ chrome' = [chrome EXCEPT !.deliveries =
                  SubSeq(@, 1, k - 1) \o SubSeq(@, k + 1, Len(@))]
  /\ UNCHANGED <<controller, engine, pending>>

\* A click on a track: handleSelectTrack up to the await of sendCommand.
Click == \E trackId \in TrackIds :
  /\ chrome.intents = <<>>
  /\ panel' = handleSelectTrack(panel, trackId)
  /\ chrome' = [chrome EXCEPT !.intents = panel'.sent]
  /\ UNCHANGED <<controller, engine, pending>>

\* The intent reaches the controller, which handles it, responds with its
\* state and broadcasts; reached tells whether the broadcast finds the panel.
Transmit == \E reached \in BOOLEAN :
  /\ chrome.intents # <<>>
  /\ Len(chrome.deliveries) < MaxDeliveries
  /\ runHandler(Head(chrome.intents), TRUE, TRUE, TRUE)
  /\ LET answered == Append(chrome.deliveries, Delivery("response", audioState'))
     IN chrome' = [chrome EXCEPT
                     !.intents = Tail(@),
                     !.deliveries =
                        IF reached /\ Len(answered) < MaxDeliveries
                        THEN Append(answered, Delivery("STATE_BROADCAST", audioState'))
                        ELSE answered]
  /\ UNCHANGED <<engine, panel, pending>>

\* sendCommand's catch block applying the intent to the local copy itself
\* (mutant of TransmitFails).
TransmitFailsGuess ==
  /\ chrome.intents # <<>>
  /\ chrome' = [chrome EXCEPT !.intents = Tail(@)]
  /\ panel' = [panel EXCEPT !.local.isPlaying = ~@]
  /\ UNCHANGED <<controller, engine, pending>>

\* The send of the intent rejects: sendCommand's catch block sends GET_STATE,
\* which the controller answers (getOk) or which rejects as well.
TransmitFails == \E getOk \in BOOLEAN :
  /\ chrome.intents # <<>>
  /\ getOk => Len(chrome.deliveries) < MaxDeliveries
  /\ chrome' = [chrome EXCEPT
                  !.intents = Tail(@),
                  !.deliveries = IF getOk THEN Append(@, Delivery("refresh", audioState))
                                 ELSE @]
  /\ UNCHANGED <<controller, engine, panel, pending>>

NextSync ==
  \/ Poll
  \/ Deliver
  \/ Click
  \/ Transmit
  \/ TransmitFails

\* The interval goes on firing while the panel is open, and what is on its
\* way to the panel arrives.
SpecSync ==
  /\ InitSync
  /\ [][NextSync]_vars
  /\ WF_vars(Poll)
  /\ WF_vars(Deliver)

(* C27: if the panel stays open and from some point on the canonical state    *)
(* does not change and no track is clicked, the panel's copy eventually       *)
(* equals the canonical state and stays equal, whatever broadcasts were lost, *)
(* whatever order the answers arrived in and whatever local echo a click had  *)
(* applied before its intent completed.                                       *)
C27_PanelConverges ==
  <>[][audioState' = audioState /\ ~Click]_vars => <>[](panel.local = audioState)

\* The panel holds the canonical state, a track selected by a click, after it
\* had held another selection, with nothing on its way.
C27_Witness ==
  /\ panel.local = audioState
  /\ audioState.currentIndex = 2
  /\ panel.before.playlist # <<>>
  /\ panel.before.currentIndex # 2
  /\ chrome.deliveries = <<>>
  /\ chrome.intents = <<>>

C27_ConvergesWhateverIsClicked ==
  <>[][audioState' = audioState]_vars => <>[](panel.local = audioState)


-----------------------------------------------------------------------------
(* C31: whenever a playAudio call starts playback (its audio.play() after    *)
(* the await succeeds), the source bound to the device is the url of the     *)
(* most recent playAudio call, also when the call that starts playback is an *)
(* earlier one that was still waiting when the later call arrived.           *)
C31_LatestUrlPlays ==
  [][\A k \in Calls :
       (engine.calls[k].phase = "ready" /\ engine'.calls[k].phase = "started")
         => (engine'.src = engine.requested /\ ~engine'.device.paused)]_vars

\* Two calls were in progress at once, the later one for the other url, and
\* both have started playback on the device, which holds the later url.
C31_Witness ==
  /\ engine.calls[1].phase = "started"
  /\ engine.calls[2].phase = "started"
  /\ engine.calls[1].signal = engine.calls[2].signal
  /\ engine.requested = "u2"
  /\ engine.src = "u2"
  /\ ~engine.device.paused


-----------------------------------------------------------------------------
(* The engine's device under every message its listener hears. SpecDevice   *)
(* adds to the playAudio calls of SpecEngine the other commands of the      *)
(* controller, the advance of the playback position while the device plays, *)
(* and the panel's intents: chrome.runtime.sendMessage delivers a message   *)
(* to the onMessage listeners of every other context of the extension, so   *)
(* the listener of setupMessageListener hears what the panel sends to the   *)
(* controller as well as what the controller forwards.                      *)

\* The volumes the panel's slider (min 0, max 1) can send, in hundredths.
SliderVolumes == {0, 50}

\* What the panel sends with sendCommand and with its periodic sync, as far
\* as the engine's switch can tell the messages apart.
PanelIntents ==
  {Message("PLAY", "", NoTrack, 0), Message("PAUSE", "", NoTrack, 0),
   Message("STOP", "", NoTrack, 0), Message("NEXT_TRACK", "", NoTrack, 0),
   Message("PREVIOUS_TRACK", "", NoTrack, 0), Message("GET_STATE", "", NoTrack, 0)}
  \cup {Message("SEEK", "", NoTrack, time) : time \in Times}
  \cup {Message("SET_VOLUME", "", NoTrack, volume) : volume \in SliderVolumes}

pauseAudio(e) == [e EXCEPT !.device = pauseDevice(@)]

seekAudio(e, time) == [e EXCEPT !.device.currentTime = time]

\* The engine's setVolume: audio.volume = Math.max(0, Math.min(1, volume)).
setDeviceVolume(e, volume) ==
  [e EXCEPT !.device.volume = Max(0, Min(FullVolume, volume))]

\* The switch of OffscreenAudioPlayer.handleMessage on message.action, with
\* message.url and message.time or message.volume; k is the playAudio call a
\* PLAY_AUDIO begins. Any other action falls through the switch.
offscreenHandleMessage(e, k, action, url, value) ==
  CASE action = "PLAY_AUDIO" -> playAudio(e, k, url)
    [] action = "PAUSE_AUDIO" -> pauseAudio(e)
    [] action = "STOP_AUDIO" -> stopAudio(e)
    [] action = "SEEK_AUDIO" -> seekAudio(e, value)
    [] action = "SET_VOLUME" -> setDeviceVolume(e, value)
    [] OTHER -> e

\* The controller's pause() forwards PAUSE_AUDIO.
PauseAudio ==
  /\ engine' = [offscreenHandleMessage(engine, 1, "PAUSE_AUDIO", "", 0) EXCEPT
                  !.command = "PAUSE_AUDIO", !.pausedAt = engine.device.currentTime]
  /\ UNCHANGED <<controller, panel, pending, chrome>>

\* The controller's seek(time) forwards SEEK_AUDIO.
SeekAudio == \E time \in Times :
  /\ engine' = [offscreenHandleMessage(engine, 1, "SEEK_AUDIO", "", time) EXCEPT
                  !.command = "SEEK_AUDIO", !.pausedAt = NoPosition]
  /\ UNCHANGED <<controller, panel, pending, chrome>>

\* The controller's setVolume(volume) forwards SET_VOLUME with the volume as
\* it received it.
SetVolumeAudio == \E volume \in Volumes :
  /\ engine' = [offscreenHandleMessage(engine, 1, "SET_VOLUME", "", volume) EXCEPT
                  !.command = "SET_VOLUME", !.pausedAt = NoPosition]
  /\ UNCHANGED <<controller, panel, pending, chrome>>

\* The playing device moves on by one unit of time.
TimeUpdate ==
  /\ ~engine.device.paused
  /\ engine.device.currentTime < MaxTime
  /\ engine' = [engine EXCEPT !.device.currentTime = @ + 1]
  /\ UNCHANGED <<controller, panel, pending, chrome>>

\* A message of the panel reaches the engine's listener.
HearIntent == \E m \in PanelIntents :
  /\ engine' = offscreenHandleMessage(engine, 1, m.action, "", m.value)
  /\ UNCHANGED <<controller, panel, pending, chrome>>

NextDevice ==
  \/ NextEngine
  \/ PauseAudio
  \/ SeekAudio
  \/ SetVolumeAudio
  \/ TimeUpdate
  \/ HearIntent

SpecDevice == Init /\ [][NextDevice]_vars

(* C32: PLAY after PAUSE on the same track resumes: when the PLAY_AUDIO that *)
(* follows a PAUSE_AUDIO for the same source starts playback, the device is  *)
(* at the position at which it was paused, not at 0.                         *)
C32_PlayResumes ==
  [][\A k \in Calls :
       (/\ engine.calls[k].phase = "ready"
        /\ engine'.calls[k].phase = "started"
        /\ engine.command = "PLAY_AUDIO"
        /\ engine.pausedAt # NoPosition)
         => engine'.device.currentTime = engine.pausedAt]_vars

(* C33: the engine changes its device (bound source, position, paused flag,  *)
(* volume) only on the commands the controller forwards: a message the panel *)
(* puts on the bus, its SET_VOLUME included, leaves the device as it was.    *)
C33_OnlyForwardedCommands ==
  [][HearIntent => (engine'.device = engine.device /\ engine'.src = engine.src)]_vars


(* C34: GET_STATE returns the full canonical state and changes nothing: the  *)
(* answer carries the state as it is, the playlist and every other field of  *)
(* the state are unchanged, nothing is written to the store, no              *)
(* STATE_BROADCAST and no command to the engine is sent, and the engine is   *)
(* left alone, however often the panel polls.                                *)
C34_GetStateChangesNothing ==
  [][Poll =>
       /\ chrome'.deliveries = Append(chrome.deliveries, Delivery("GET_STATE", audioState))
       /\ audioState' = audioState
       /\ store' = store
       /\ log' = log
       /\ broadcast' = broadcast
       /\ engine' = engine]_vars

\* The panel polled twice in a row after a click had changed the selection:
\* both answers are on their way with the canonical state, which the store
\* holds as the handler of the click saved it.
C34_Witness ==
  /\ Len(chrome.deliveries) = 2
  /\ \A k \in 1..Len(chrome.deliveries) :
        /\ chrome.deliveries[k].kind = "GET_STATE"
        /\ chrome.deliveries[k].carries = audioState
  /\ audioState.currentIndex = 1
  /\ Handled("SET_CURRENT_TRACK")
  /\ StoreMatchesState

=============================================================================
